---- MODULE Spec2Model ----
(***************************************************************************)
(* Model of src/TEBD_yl831.py: the TEBD engine doTEBD with its helpers     *)
(* (left_contract_MPS, right_contract_MPS, orthog_MPS, apply_gate_MPS) and *)
(* the tensor network contractor ncon with partial_trace and check_inputs. *)
(*                                                                         *)
(* doTEBD is modelled statement by statement (pc names the next statement  *)
(* of the loop body).  Tensors of the engine are carried by their shapes;  *)
(* the bond weights are carried exactly, as the kept singular values with  *)
(* the squared norm they are divided by.  The results of the dense linear  *)
(* algebra (eigs, eigh, svd) are choices over the outputs these routines   *)
(* can produce for the given sizes.                                        *)
(*                                                                         *)
(* ncon is modelled statement by statement as well (npc names the next     *)
(* statement), on dense arrays with integer entries held in row-major      *)
(* order, so that every transpose, reshape, trace and tensordot is         *)
(* computed as numpy computes it.  A call is made on every list of label   *)
(* lists within the bounds; a network that passes validation is also       *)
(* called with other entries, without validation, with explicit orders,    *)
(* with a count, rank or size that does not fit.  Without validation only  *)
(* well-formed networks are passed.                                        *)
(*                                                                         *)
(* Spec is a run of doTEBD, SpecNcon a call of ncon; each leaves the       *)
(* variables of the other at rest.                                         *)
(***************************************************************************)
EXTENDS Integers, Sequences, FiniteSets, TLC

VARIABLES
  numiter, midsteps, chi, hasMagz,   \* doTEBD arguments (fixed during a run)
  k, pc,                             \* loop counter and next statement
  shapeA, shapeB,                    \* A.shape, B.shape
  sAB, sBA,                          \* weight vectors: [s, n2] = s / sqrt(n2)
  sigBA, sigAB, muAB, muBA,          \* environment matrices: [dim, k]
  by,                                \* producer of the current A, B, sAB, sBA
  time, sim_E_0, m_z,                \* the three traces
  log,                               \* operations performed so far
  raised,                            \* the exception that ended the run
  bond0                              \* the bond dimensions of the input tensors

tebdVars == <<numiter, midsteps, chi, hasMagz, k, pc, shapeA, shapeB, sAB, sBA,
              sigBA, sigAB, muAB, muBA, by, time, sim_E_0, m_z, log, raised,
              bond0>>

VARIABLES
  tensors, connects, order_arg,      \* ncon arguments (con_order as passed)
  check_network,
  tensor_list, connect_list,         \* the working lists of ncon
  con_order,                         \* the labels still to be contracted
  ele,                               \* loop index of the partial-trace pass
  npc,                               \* next statement of ncon
  result,                            \* the value returned by ncon
  nraised,                           \* the exception that ended the call
  nops                               \* operations performed so far

nconVars == <<tensors, connects, order_arg, check_network, tensor_list,
              connect_list, con_order, ele, npc, result, nraised, nops>>

VARIABLES
  fpc,                               \* next statement of the function called
  flank,                             \* apply_gate_MPS: the incoming sBA
  sBA_trim, inv_trim,                \* apply_gate_MPS: sBA_trim, 1 / sBA_trim
  dtempL, dtempR,                    \* orthog_MPS: eigenvalues of sigBA, of muBA
  DL, DR,                            \* orthog_MPS: the eigenvalues kept
  orth                               \* orthog_MPS: the shapes and weights returned

fnVars == <<fpc, flank, sBA_trim, inv_trim, dtempL, dtempR, DL, DR, orth>>

vars == <<tebdVars, nconVars, fnVars>>

----------------------------------------------------------------------------
(* Bounds of the model *)

MaxIter == 2
MaxMid == 2
MaxChi == 2
MaxD == 2
MaxBond0 == 2
MaxSV == 1
MaxEig == 3
MaxEnv == 3
MaxNet == 3
MaxRank == 3
MaxAxes == 4
MaxPos == 2
MaxNeg == 2
MaxDim == 3
MaxLen == 3
MaxW == 3

(* dtol of orthog_MPS, in the unit the eigenvalues are counted in *)
Dtol == 1

(* eigs is called with k=1 *)
EigsK == 1

(* stol of apply_gate_MPS, in the unit the flanking weights are counted in *)
Stol == 2

----------------------------------------------------------------------------
(* Helpers *)

Min(a, b) == IF a <= b THEN a ELSE b

RECURSIVE SumSq(_)
SumSq(s) == IF Len(s) = 0 THEN 0 ELSE s[1] * s[1] + SumSq(Tail(s))

Take(s, n) == SubSeq(s, 1, n)

(* Sequences of length n over 0..top that never increase, coded by the      *)
(* number of entries that reach each level.                                 *)
NonIncreasing(n, top) ==
  { [i \in 1..n |-> Cardinality({v \in 1..top : c[v] >= i})] :
      c \in { f \in [1..top -> 0..n] : \A v \in 1..(top - 1) : f[v] >= f[v + 1] } }

Reverse(s) == [i \in 1..Len(s) |-> s[Len(s) + 1 - i]]

(* LA.svd(..., full_matrices=False) of an m x n matrix: min(m, n) singular  *)
(* values, non-negative, in descending order; all of them are zero when the *)
(* decomposed matrix is the zero matrix.                                    *)
SvdValues(n) == NonIncreasing(n, MaxSV)

(* the values LA.svd returns for a matrix of nan entries, where it returns: *)
(* n values that are nan, written as values without a norm                  *)
SvdNan(n) == [i \in 1..n |-> 0]

(* a weight vector of nan entries: the values were divided by the norm 0 *)
IsNan(w) == w.n2 = 0

(* LA.eigh of a trace-one Hermitian environment matrix of size n: n         *)
(* eigenvalues in ascending order; the largest is above dtol.               *)
EighValues(n) == { Reverse(s) : s \in { t \in NonIncreasing(n, MaxEig) : t[1] > Dtol } }

----------------------------------------------------------------------------
(* apply_gate_MPS and orthog_MPS: the parts that decide sizes and weights *)

(* chitemp = sum(dtemp > dtol) *)
KeptAtOrAbove(dtemp) == Cardinality({i \in 1..Len(dtemp) : dtemp[i] >= Dtol})
Kept(dtemp) == Cardinality({i \in 1..Len(dtemp) : dtemp[i] > Dtol})

(* DL = dtemp[range(-1, -chitemp - 1, -1)]: the last chitemp eigenvalues,   *)
(* largest first                                                            *)
EighKeepAscending(dtemp) ==
  [i \in 1..Kept(dtemp) |-> dtemp[Len(dtemp) - Kept(dtemp) + i]]
EighKeep(dtemp) == [i \in 1..Kept(dtemp) |-> dtemp[Len(dtemp) + 1 - i]]

(* the sizes DL (or DR) can have for an environment matrix of size n *)
KeptSizes(n) == { Len(EighKeep(dtemp)) : dtemp \in EighValues(n) }

(* LA.svd(weighted_mat, full_matrices=False) for a len(DL) x len(DR) matrix *)
WeightedSvd(nSig, nMu) ==
  UNION { SvdValues(Min(nL, nR)) : nL \in KeptSizes(nSig), nR \in KeptSizes(nMu) }

(* chitemp = min(chi, len(stemp)) *)
ChitempUntruncated(c, stemp) == Len(stemp)
Chitemp(c, stemp) == Min(c, Len(stemp))

(* stemp[range(chitemp)] / LA.norm(stemp[range(chitemp)]) *)
NewWeightsFullNorm(stemp, chitemp) == [s |-> Take(stemp, chitemp), n2 |-> SumSq(stemp)]
NewWeights(stemp, chitemp) ==
  [s |-> Take(stemp, chitemp), n2 |-> SumSq(Take(stemp, chitemp))]

(* apply_gate_MPS(gate, L, sMid, R, sOut, chi): the SVD has d*chiOut values *)
(* where chiOut = len(sOut); returns the shapes of L and R and the weights. *)
apply_gate_MPSAllColumns(dd, lenOut, c, stemp) ==
  LET chitemp == Chitemp(c, stemp)
  IN  [L |-> <<lenOut, dd, Len(stemp)>>,
       s |-> NewWeights(stemp, chitemp),
       R |-> <<Len(stemp), dd, lenOut>>]
apply_gate_MPS(dd, lenOut, c, stemp) ==
  LET chitemp == Chitemp(c, stemp)
  IN  [L |-> <<lenOut, dd, chitemp>>,
       s |-> NewWeights(stemp, chitemp),
       R |-> <<chitemp, dd, lenOut>>]

(* orthog_MPS(sig, mu, L, s, R): weighted_mat is len(DL) x len(DR), stemp   *)
(* its singular values; L's right bond and R's left bond become len(stemp). *)
orthog_MPS(shL, shR, stemp) ==
  [L |-> <<shL[1], shL[2], Len(stemp)>>,
   s |-> NewWeights(stemp, Len(stemp)),
   R |-> <<Len(stemp), shR[2], shR[3]>>]

----------------------------------------------------------------------------
(* doTEBD: loop control *)

(* if np.mod(k, midsteps) == 0 or (k == numiter) *)
CanonCondNoFinal(kk, ni, ms) == kk % ms = 0
CanonCond(kk, ni, ms) == kk % ms = 0 \/ kk = ni

(* if k < numiter *)
EvolveCondInclusive(kk, ni) == kk <= ni
EvolveCond(kk, ni) == kk < ni

(* doTEBD has no try/except: an exception of a callee ends the run *)
AfterRaiseContinue(next) == next
AfterRaise(next) == "error"

(* eigs(LinearOperator((n, n)), k=1): refuses a LinearOperator unless       *)
(* k < n - 1, and may fail to converge otherwise.                           *)
EigsOutcomes(bond) ==
  IF EigsK >= bond * bond - 1 THEN {"TypeError"}
  ELSE {"ok", "ArpackNoConvergence"}

(* eigs on a transfer operator built from nan weights: every product is     *)
(* nan, no Ritz value passes the convergence test, ARPACK ends with a       *)
(* breakdown or at maxiter                                                  *)
EigsOutcomesNan(bond) ==
  IF EigsK >= bond * bond - 1 THEN {"TypeError"}
  ELSE {"ArpackError", "ArpackNoConvergence"}

(* the outcomes of the eigs call of a contraction of the current MPS *)
EigsCall(bond, wAB, wBA) ==
  IF IsNan(wAB) \/ IsNan(wBA) THEN EigsOutcomesNan(bond) ELSE EigsOutcomes(bond)

(* LA.svd in apply_gate_MPS, lines 453-454: with nan weights the matrix is  *)
(* nan and LA.svd raises LinAlgError or, depending on the LAPACK build,     *)
(* returns nan values                                                       *)
GateSvd(n, wMid, wOut) ==
  IF IsNan(wMid) \/ IsNan(wOut)
  THEN {[raises |-> "LinAlgError", stemp |-> <<>>], [raises |-> "none", stemp |-> SvdNan(n)]}
  ELSE {[raises |-> "none", stemp |-> st] : st \in SvdValues(n)}

Stamp(op, kk) == [op |-> op, k |-> kk]
Entry(op, kk) == [op |-> op, k |-> kk]

(* the statement that starts iteration kk of the for loop *)
StartIter(kk) ==
  IF CanonCond(kk, numiter, midsteps) THEN "left"
  ELSE IF EvolveCond(kk, numiter) THEN "evolveAB"
  ELSE "next"

(* input weight vectors: all entries equal, normalised (as the driver's      *)
(* np.ones(chi) / np.sqrt(chi)) or not                                      *)
InputWeights(n) == { [s |-> [i \in 1..n |-> 1], n2 |-> m] : m \in {1, n} }

(* no call of ncon is in progress *)
NconIdle ==
  /\ tensors = <<>>
  /\ connects = <<>>
  /\ order_arg = [given |-> FALSE, order |-> <<>>]
  /\ check_network = TRUE
  /\ tensor_list = <<>>
  /\ connect_list = <<>>
  /\ con_order = <<>>
  /\ ele = 0
  /\ npc = "idle"
  /\ result = [kind |-> "none", dims |-> <<>>, data |-> <<>>]
  /\ nraised = [type |-> "none", what |-> "none", label |-> 0]
  /\ nops = [trace |-> 0, contract |-> 0, outer |-> 0]

(* no helper is called on its own *)
FnIdle ==
  /\ fpc = "idle"
  /\ flank = <<>>
  /\ sBA_trim = <<>>
  /\ inv_trim = <<>>
  /\ dtempL = <<>>
  /\ dtempR = <<>>
  /\ DL = <<>>
  /\ DR = <<>>
  /\ orth = [L |-> <<>>, s |-> [s |-> <<>>, n2 |-> 0], R |-> <<>>]

Init ==
  /\ NconIdle
  /\ FnIdle
  /\ numiter \in 0..MaxIter
  /\ midsteps \in 1..MaxMid
  /\ chi \in 1..MaxChi
  /\ hasMagz \in BOOLEAN
  /\ \E dd \in 1..MaxD, cAB \in 1..MaxBond0, cBA \in 1..MaxBond0 :
        /\ shapeA = <<cBA, dd, cAB>>
        /\ shapeB = <<cAB, dd, cBA>>
        /\ sAB \in InputWeights(cAB)
        /\ sBA \in InputWeights(cBA)
        /\ bond0 = [AB |-> cAB, BA |-> cBA]
        /\ sigBA = [dim |-> cBA, k |-> -1]   \* np.eye(A.shape[0]) / A.shape[0]
        /\ muAB = [dim |-> cAB, k |-> -1]    \* np.eye(A.shape[2]) / A.shape[2]
  /\ sigAB = [dim |-> 0, k |-> -1]
  /\ muBA = [dim |-> 0, k |-> -1]
  /\ by = [A |-> Stamp("input", -1), B |-> Stamp("input", -1),
           sAB |-> Stamp("input", -1), sBA |-> Stamp("input", -1)]
  /\ k = 0
  /\ pc = StartIter(0)
  /\ time = <<>>
  /\ sim_E_0 = <<>>
  /\ m_z = <<>>
  /\ log = <<>>
  /\ raised = [what |-> "none", k |-> -1]

(* no run of doTEBD is in progress *)
TebdIdle ==
  /\ numiter = 0
  /\ midsteps = 1
  /\ chi = 1
  /\ hasMagz = FALSE
  /\ k = 0
  /\ pc = "idle"
  /\ shapeA = <<1, 1, 1>>
  /\ shapeB = <<1, 1, 1>>
  /\ sAB = [s |-> <<1>>, n2 |-> 1]
  /\ sBA = [s |-> <<1>>, n2 |-> 1]
  /\ sigBA = [dim |-> 0, k |-> -1]
  /\ sigAB = [dim |-> 0, k |-> -1]
  /\ muAB = [dim |-> 0, k |-> -1]
  /\ muBA = [dim |-> 0, k |-> -1]
  /\ by = [A |-> Stamp("input", -1), B |-> Stamp("input", -1),
           sAB |-> Stamp("input", -1), sBA |-> Stamp("input", -1)]
  /\ time = <<>>
  /\ sim_E_0 = <<>>
  /\ m_z = <<>>
  /\ log = <<>>
  /\ raised = [what |-> "none", k |-> -1]
  /\ bond0 = [AB |-> 1, BA |-> 1]

params == <<numiter, midsteps, chi, hasMagz, bond0>>
traces == <<time, sim_E_0, m_z>>
mps == <<shapeA, shapeB, sAB, sBA, by>>
envs == <<sigBA, sigAB, muAB, muBA>>

Raise(what, next) ==
  /\ raised' = [what |-> what, k |-> k]
  /\ log' = Append(log, Entry("raise", k))
  /\ pc' = AfterRaise(next)

(* sigBA, sigAB = left_contract_MPS(sigBA, sBA, A, sAB, B) *)
LeftContract ==
  /\ pc = "left"
  /\ \E out \in EigsCall(shapeA[1], sAB, sBA) :
       IF out = "ok"
       THEN /\ sigBA' = [dim |-> shapeA[1], k |-> k]
            /\ sigAB' = [dim |-> shapeA[3], k |-> k]
            /\ pc' = "right"
            /\ log' = Append(log, Entry("left", k))
            /\ UNCHANGED raised
       ELSE /\ Raise(out, "right")
            /\ UNCHANGED <<sigBA, sigAB>>
  /\ UNCHANGED <<nconVars, fnVars, params, k, mps, muAB, muBA, traces>>

(* muAB, muBA = right_contract_MPS(muAB, sBA, A, sAB, B) *)
RightContract ==
  /\ pc = "right"
  /\ \E out \in EigsCall(shapeA[3], sAB, sBA) :
       IF out = "ok"
       THEN /\ muAB' = [dim |-> shapeA[3], k |-> k]
            /\ muBA' = [dim |-> shapeA[1], k |-> k]
            /\ pc' = "orthBA"
            /\ log' = Append(log, Entry("right", k))
            /\ UNCHANGED raised
       ELSE /\ Raise(out, "orthBA")
            /\ UNCHANGED <<muAB, muBA>>
  /\ UNCHANGED <<nconVars, fnVars, params, k, mps, sigBA, sigAB, traces>>

(* B, sBA, A = orthog_MPS(sigBA, muBA, B, sBA, A) *)
OrthogBA ==
  /\ pc = "orthBA"
  /\ \E r \in { orthog_MPS(shapeB, shapeA, stemp) :
                    stemp \in WeightedSvd(sigBA.dim, muBA.dim) } :
       /\ shapeB' = r.L
       /\ sBA' = r.s
       /\ shapeA' = r.R
  /\ by' = [by EXCEPT !.B = Stamp("orthBA", k), !.sBA = Stamp("orthBA", k),
                      !.A = Stamp("orthBA", k)]
  /\ log' = Append(log, Entry("orthBA", k))
  /\ pc' = "orthAB"
  /\ UNCHANGED <<nconVars, fnVars, params, k, sAB, envs, traces, raised>>

(* A, sAB, B = orthog_MPS(sigAB, muAB, A, sAB, B) *)
OrthogAB ==
  /\ pc = "orthAB"
  /\ \E r \in { orthog_MPS(shapeA, shapeB, stemp) :
                    stemp \in WeightedSvd(sigAB.dim, muAB.dim) } :
       /\ shapeA' = r.L
       /\ sAB' = r.s
       /\ shapeB' = r.R
  /\ by' = [by EXCEPT !.A = Stamp("orthAB", k), !.sAB = Stamp("orthAB", k),
                      !.B = Stamp("orthAB", k)]
  /\ log' = Append(log, Entry("orthAB", k))
  /\ pc' = "norm"
  /\ UNCHANGED <<nconVars, fnVars, params, k, sBA, envs, traces, raised>>

(* A = A / A_norm; B = B / B_norm *)
Normalize ==
  /\ pc = "norm"
  /\ by' = [by EXCEPT !.A = Stamp("norm", k), !.B = Stamp("norm", k)]
  /\ log' = Append(log, Entry("norm", k))
  /\ pc' = "measure"
  /\ UNCHANGED <<nconVars, fnVars, params, k, shapeA, shapeB, sAB, sBA, envs, traces, raised>>

(* loc_density_MPS, the energy, time.append(k), sim_E_0.append(energy),     *)
(* and m_z.append(mz_t) if magz is not None                                 *)
Measure ==
  /\ pc = "measure"
  /\ time' = Append(time, k)
  /\ sim_E_0' = Append(sim_E_0, Stamp("energy", k))
  /\ m_z' = IF hasMagz THEN Append(m_z, Stamp("mz", k)) ELSE m_z
  /\ log' = Append(log, Entry("measure", k))
  /\ pc' = IF EvolveCond(k, numiter) THEN "evolveAB" ELSE "next"
  /\ UNCHANGED <<nconVars, fnVars, params, k, mps, envs, raised>>

(* A, sAB, B = apply_gate_MPS(gateAB, A, sAB, B, sBA, chi) *)
EvolveAB ==
  /\ pc = "evolveAB"
  /\ \E o \in GateSvd(shapeA[2] * Len(sBA.s), sAB, sBA) :
       IF o.raises # "none"
       THEN /\ Raise(o.raises, "evolveBA")
            /\ UNCHANGED <<shapeA, sAB, shapeB, by>>
       ELSE /\ \E r \in {apply_gate_MPS(shapeA[2], Len(sBA.s), chi, o.stemp)} :
                 /\ shapeA' = r.L
                 /\ sAB' = r.s
                 /\ shapeB' = r.R
            /\ by' = [by EXCEPT !.A = Stamp("gateAB", k), !.sAB = Stamp("gateAB", k),
                                !.B = Stamp("gateAB", k)]
            /\ log' = Append(log, Entry("gateAB", k))
            /\ pc' = "evolveBA"
            /\ UNCHANGED raised
  /\ UNCHANGED <<nconVars, fnVars, params, k, sBA, envs, traces>>

(* B, sBA, A = apply_gate_MPS(gateBA, B, sBA, A, sAB, chi) *)
EvolveBA ==
  /\ pc = "evolveBA"
  /\ \E o \in GateSvd(shapeB[2] * Len(sAB.s), sBA, sAB) :
       IF o.raises # "none"
       THEN /\ Raise(o.raises, "next")
            /\ UNCHANGED <<shapeB, sBA, shapeA, by>>
       ELSE /\ \E r \in {apply_gate_MPS(shapeB[2], Len(sAB.s), chi, o.stemp)} :
                 /\ shapeB' = r.L
                 /\ sBA' = r.s
                 /\ shapeA' = r.R
            /\ by' = [by EXCEPT !.B = Stamp("gateBA", k), !.sBA = Stamp("gateBA", k),
                                !.A = Stamp("gateBA", k)]
            /\ log' = Append(log, Entry("gateBA", k))
            /\ pc' = "next"
            /\ UNCHANGED raised
  /\ UNCHANGED <<nconVars, fnVars, params, k, sAB, envs, traces>>

(* for k in range(numiter + 1): the next iteration, or the end of the loop *)
NextIter ==
  /\ pc = "next"
  /\ IF k < numiter
     THEN /\ k' = k + 1
          /\ pc' = StartIter(k + 1)
     ELSE /\ k' = k
          /\ pc' = "final"
  /\ UNCHANGED <<nconVars, fnVars, params, mps, envs, traces, log, raised>>

(* rhoAB, rhoBA = loc_density_MPS(A, sAB, B, sBA); return ... *)
Finalize ==
  /\ pc = "final"
  /\ log' = Append(log, Entry("return", k))
  /\ pc' = "done"
  /\ UNCHANGED <<nconVars, fnVars, params, k, mps, envs, traces, raised>>

Next ==
  \/ LeftContract
  \/ RightContract
  \/ OrthogBA
  \/ OrthogAB
  \/ Normalize
  \/ Measure
  \/ EvolveAB
  \/ EvolveBA
  \/ NextIter
  \/ Finalize

Spec == Init /\ [][Next]_vars

----------------------------------------------------------------------------
(* Dense arrays: [dims |-> shape, data |-> the entries in row-major (C)     *)
(* order].  Positions and axes are counted from 1 here, from 0 in numpy;    *)
(* multi-indices keep numpy's values 0..dim-1.                              *)

RECURSIVE Prod(_)
Prod(s) == IF Len(s) = 0 THEN 1 ELSE s[1] * Prod(Tail(s))

RECURSIVE SumSeq(_)
SumSeq(s) == IF Len(s) = 0 THEN 0 ELSE s[1] + SumSeq(Tail(s))

RECURSIVE Flatten(_)
Flatten(ss) == IF Len(ss) = 0 THEN <<>> ELSE ss[1] \o Flatten(Tail(ss))

Range(s) == { s[i] : i \in 1..Len(s) }

Count(s, x) == Cardinality({ i \in 1..Len(s) : s[i] = x })

(* positions of s holding x, ascending: np.where(s == x)[0] *)
Where(s, x) == { i \in 1..Len(s) : s[i] = x }

RECURSIVE Sorted(_)
Sorted(S) ==
  IF S = {} THEN <<>>
  ELSE LET m == CHOOSE x \in S : \A y \in S : x <= y
       IN <<m>> \o Sorted(S \ {m})

(* np.unique(s): the distinct values, ascending *)
unique(s) == Sorted(Range(s))

(* np.argsort(s) for distinct values: the positions in ascending order of   *)
(* the value they hold                                                      *)
argsort(s) ==
  [i \in 1..Len(s) |->
     CHOOSE p \in 1..Len(s) :
       Cardinality({ q \in 1..Len(s) : s[q] < s[p] }) = i - 1]

Negated(s) == [i \in 1..Len(s) |-> 0 - s[i]]

(* np.delete(s, positions) *)
delete(s, P) ==
  LET keep == Sorted({ i \in 1..Len(s) : i \notin P })
  IN [j \in 1..Len(keep) |-> s[keep[j]]]

FirstPos(s, x) == CHOOSE i \in 1..Len(s) : s[i] = x /\ \A j \in 1..(i - 1) : s[j] # x

(* np.intersect1d(a, b, return_indices=True): the common values ascending,  *)
(* with the position of the first occurrence of each in a and in b          *)
intersect1d(a, b) ==
  LET common == Sorted(Range(a) \cap Range(b))
  IN [vals |-> common,
      ia |-> [j \in 1..Len(common) |-> FirstPos(a, common[j])],
      ib |-> [j \in 1..Len(common) |-> FirstPos(b, common[j])]]

Stride(dims, i) == Prod(SubSeq(dims, i + 1, Len(dims)))

Unravel(n, dims) == [i \in 1..Len(dims) |-> (n \div Stride(dims, i)) % dims[i]]

Ravel(idx, dims) == SumSeq([i \in 1..Len(dims) |-> idx[i] * Stride(dims, i)])

At(T, idx) == T.data[Ravel(idx, T.dims) + 1]

Size(T) == Len(T.data)

(* np.transpose(T, axes): axis i of the result is axis axes[i] of T *)
transpose(T, axes) ==
  LET d == [i \in 1..Len(axes) |-> T.dims[axes[i]]]
  IN [dims |-> d,
      data |-> [n \in 1..Prod(d) |->
                  LET idx == Unravel(n - 1, d)
                  IN At(T, [a \in 1..Len(axes) |-> idx[FirstPos(axes, a)]])]]

(* np.tensordot(A, B, axes=(axA, axB)): sum over the paired axes; the free  *)
(* axes of A in their order, then the free axes of B in their order         *)
tensordotPlain(A, B, axA, axB) ==
  LET freeA == Sorted((1..Len(A.dims)) \ Range(axA))
      freeB == Sorted((1..Len(B.dims)) \ Range(axB))
      cd == [j \in 1..Len(axA) |-> A.dims[axA[j]]]
      d == [j \in 1..Len(freeA) |-> A.dims[freeA[j]]]
             \o [j \in 1..Len(freeB) |-> B.dims[freeB[j]]]
  IN [dims |-> d,
      data |-> [n \in 1..Prod(d) |->
         LET idx == Unravel(n - 1, d)
         IN SumSeq([c \in 1..Prod(cd) |->
              LET ci == Unravel(c - 1, cd)
                  ia == [a \in 1..Len(A.dims) |->
                           IF a \in Range(axA) THEN ci[FirstPos(axA, a)]
                           ELSE idx[FirstPos(freeA, a)]]
                  ib == [b \in 1..Len(B.dims) |->
                           IF b \in Range(axB) THEN ci[FirstPos(axB, b)]
                           ELSE idx[Len(freeA) + FirstPos(freeB, b)]]
              IN At(A, ia) * At(B, ib)])]]

(* a contraction whose entries carry the size of its first operand *)
tensordotScaled(A, B, axA, axB) ==
  LET T == tensordotPlain(A, B, axA, axB)
  IN [dims |-> T.dims, data |-> [n \in 1..Len(T.data) |-> Size(A) * T.data[n]]]

tensordot(A, B, axA, axB) == tensordotPlain(A, B, axA, axB)

(* T.reshape(np.prod(T.shape)): np.prod(()) is the float 1.0, which reshape *)
(* refuses with a TypeError; the product of a non-empty shape is an integer *)
ReshapeRaises(T) == Len(T.dims) = 0

(* np.outer(A.reshape(prod(s1)), B.reshape(prod(s2))).reshape(s1 ++ s2) *)
outer(A, B) ==
  IF ReshapeRaises(A) \/ ReshapeRaises(B)
  THEN [raises |-> "TypeError", dims |-> <<>>, data |-> <<>>]
  ELSE [raises |-> "none",
        dims |-> A.dims \o B.dims,
        data |-> [n \in 1..(Size(A) * Size(B)) |->
                    A.data[((n - 1) \div Size(B)) + 1] * B.data[((n - 1) % Size(B)) + 1]]]

----------------------------------------------------------------------------
(* partial_trace and check_inputs *)

(* A[:, ip, ip] at row f of the array reshaped to (free, cont_dim, cont_dim) *)
TraceEntryColumn0(A3, f, ip, cont_dim) == A3[(f * cont_dim + ip) * cont_dim + 1]

TraceEntry(A3, f, ip, cont_dim) == A3[(f * cont_dim + ip) * cont_dim + ip + 1]

(* partial_trace(A, A_label), num_cont > 0, every repeated label twice *)
partial_trace(A, A_label) ==
  LET dup == Sorted({ l \in Range(A_label) : Count(A_label, l) > 1 })
      num_cont == Len(A_label) - Len(unique(A_label))
      \* np.array(dup_list).reshape(2 * num_cont, order='F')
      cont_ind == [j \in 1..(2 * num_cont) |->
                     IF j <= num_cont
                     THEN Sorted(Where(A_label, dup[j]))[1]
                     ELSE Sorted(Where(A_label, dup[j - num_cont]))[2]]
      free_ind == Sorted((1..Len(A_label)) \ Range(cont_ind))
      cont_dim == Prod([j \in 1..num_cont |-> A.dims[cont_ind[j]]])
      free_dim == [j \in 1..Len(free_ind) |-> A.dims[free_ind[j]]]
      A3 == transpose(A, free_ind \o cont_ind).data
  IN [B |-> [dims |-> free_dim,
             data |-> [f \in 1..Prod(free_dim) |->
                         SumSeq([ip \in 1..cont_dim |->
                                   TraceEntry(A3, f - 1, ip - 1, cont_dim)])]],
      B_label |-> delete(A_label, Range(cont_ind)),
      cont_label |-> unique([j \in 1..Len(cont_ind) |-> A_label[cont_ind[j]]])]

Less(a, b) == a < b

Passed == [ok |-> TRUE, what |-> "none", label |-> 0]
Invalid(what, label) == [ok |-> FALSE, what |-> what, label |-> label]

(* the loop of lines 187-192 stopping one label short *)
NegCheckShort(neg_ind) ==
  LET bad == { ind \in (1 - Len(neg_ind))..(-1) : Count(neg_ind, ind) # 1 }
  IN IF bad = {} THEN Passed
     ELSE LET ind == CHOOSE x \in bad : \A y \in bad : y <= x
          IN IF Count(neg_ind, ind) = 0
             THEN Invalid("no index labelled", ind)
             ELSE Invalid("more than one index labelled", ind)

(* lines 187-192: for ind in -1, -2, ..., -len(neg_ind) *)
NegCheck(neg_ind) ==
  LET bad == { ind \in (0 - Len(neg_ind))..(-1) : Count(neg_ind, ind) # 1 }
  IN IF bad = {} THEN Passed
     ELSE LET ind == CHOOSE x \in bad : \A y \in bad : y <= x
          IN IF Count(neg_ind, ind) = 0
             THEN Invalid("no index labelled", ind)
             ELSE Invalid("more than one index labelled", ind)

(* one pass of the loop of lines 196-207 without the comparison of the     *)
(* two sizes                                                                *)
PosCheckOneCounts(ind, pos_ind, flat_connect, flat_dims) ==
  IF Count(pos_ind, ind) = 1 THEN Invalid("only one index labelled", ind)
  ELSE IF Count(pos_ind, ind) > 2 THEN Invalid("more than two indices labelled", ind)
  ELSE Passed

(* the outcome of one pass of the loop of lines 196-207 *)
PosCheckOne(ind, pos_ind, flat_connect, flat_dims) ==
  IF Count(pos_ind, ind) = 1 THEN Invalid("only one index labelled", ind)
  ELSE IF Count(pos_ind, ind) > 2 THEN Invalid("more than two indices labelled", ind)
  ELSE LET at == Sorted(Where(flat_connect, ind))
       IN IF flat_dims[at[1]] # flat_dims[at[2]]
          THEN Invalid("tensor dimension mismatch on index labelled", ind)
          ELSE Passed

(* lines 195-207: for ind in np.unique(pos_ind) *)
PosCheck(pos_ind, flat_connect, flat_dims) ==
  LET bad == { ind \in Range(pos_ind) :
                 ~PosCheckOne(ind, pos_ind, flat_connect, flat_dims).ok }
  IN IF bad = {} THEN Passed
     ELSE PosCheckOne(CHOOSE x \in bad : \A y \in bad : x <= y,
                      pos_ind, flat_connect, flat_dims)

(* check_inputs: the first check that fails decides the error.  The raise   *)
(* of lines 178-181 is read with its closing parenthesis (the file has it   *)
(* inside the commented-out line 181): a ValueError whose message is the    *)
(* unformatted text, naming no tensor.                                      *)
check_inputs(clist, flat_connect, dims_list, order) ==
  LET pos_ind == SelectSeq(flat_connect, LAMBDA l : l > 0)
      neg_ind == SelectSeq(flat_connect, LAMBDA l : l < 0)
  IN IF Len(dims_list) # Len(clist)
     THEN Invalid("mismatch between tensors and index sublists", 0)
     ELSE IF \E t \in 1..Len(dims_list) : Len(dims_list[t]) # Len(clist[t])
     THEN Invalid("number of indices does not match number of labels", 0)
     ELSE IF SortSeq(order, Less) # unique(pos_ind)
     THEN Invalid("invalid contraction order", 0)
     ELSE IF ~NegCheck(neg_ind).ok THEN NegCheck(neg_ind)
     ELSE PosCheck(pos_ind, flat_connect, Flatten(dims_list))

----------------------------------------------------------------------------
(* ncon: the calls *)

Labels == { l \in (0 - MaxNeg)..MaxPos : l # 0 }

Abs(x) == IF x < 0 THEN 0 - x ELSE x

(* the size of the axes that carry label l in a well-formed call *)
DimOf(l) == MaxDim - (Abs(l) % 2)

(* the entry at flat position n (from 0) of the t-th tensor of a call, for  *)
(* the two fillings seed = 0 and seed = 1                                   *)
Val(seed, t, n) == 1 + ((3 * t + n * n + 2 * n + seed * (n + 1)) % 7)

MkTensor(shape, seed, t) ==
  [dims |-> shape, data |-> [n \in 1..Prod(shape) |-> Val(seed, t, n - 1)]]

Tensors(shapes, seed) == [t \in 1..Len(shapes) |-> MkTensor(shapes[t], seed, t)]

Shapes(c) == [t \in 1..Len(c) |-> [a \in 1..Len(c[t]) |-> DimOf(c[t][a])]]

Positive(l) == l > 0
Negative(l) == l < 0

(* line 57: np.unique(flat_connect[flat_connect > 0]) *)
DefaultOrder(c) == unique(SelectSeq(Flatten(c), Positive))

RankSeqs(total) ==
  UNION { { r \in [1..n -> 1..MaxRank] : SumSeq(r) = total } : n \in 1..MaxNet }

Split(flat, ranks) ==
  [t \in 1..Len(ranks) |->
     SubSeq(flat, SumSeq(SubSeq(ranks, 1, t - 1)) + 1, SumSeq(SubSeq(ranks, 1, t)))]

IsValid(c) == check_inputs(c, Flatten(c), Shapes(c), DefaultOrder(c)).ok

None == [given |-> FALSE, order |-> <<>>]
Given(o) == [given |-> TRUE, order |-> o]

RECURSIVE Perms(_)
Perms(S) ==
  IF S = {} THEN {<<>>}
  ELSE UNION { { <<x>> \o p : p \in Perms(S \ {x}) } : x \in S }

(* the orders passed for the labels of c: every permutation of its distinct *)
(* positive labels, the default order without its first label, the default  *)
(* order with its first label repeated                                      *)
Orders(c) ==
  Perms(Range(DefaultOrder(c)))
  \cup (IF Len(DefaultOrder(c)) = 0 THEN {<<1>>}
        ELSE {Tail(DefaultOrder(c)), Append(DefaultOrder(c), DefaultOrder(c)[1])})

Call(ts, cs, ord, chk) ==
  [tensors |-> ts, connects |-> cs, order_arg |-> ord, check_network |-> chk]

(* the tensors are shaped after the label lists *)
PlainCalls(c) == { Call(Tensors(Shapes(c), 0), c, None, TRUE) }

(* one label list more than tensors, one label list fewer than tensors *)
CountCalls(c) ==
  { Call(Tensors(Shapes(c), 0), Append(c, c[1]), None, TRUE) }
  \cup { Call(Tensors(Shapes(c), 0), SubSeq(c, 1, Len(c) - 1), None, TRUE) }

(* a well-formed network with other entries, without validation, with an    *)
(* explicit contraction order                                               *)
WellFormedCalls(c) ==
  { Call(Tensors(Shapes(c), 1), c, None, TRUE) }
  \cup { Call(Tensors(Shapes(c), 0), c, None, FALSE) }
  \cup { Call(Tensors(Shapes(c), 0), c, Given(o), TRUE) : o \in Orders(c) }

(* a well-formed network with one axis of another size, or one tensor of    *)
(* another rank                                                             *)
ShapeCalls(c) ==
  UNION { { Call(Tensors([Shapes(c) EXCEPT ![t][a] = @ + 1], 0), c, None, TRUE) :
              a \in 1..Len(c[t]) } : t \in 1..Len(c) }
  \cup { Call(Tensors([Shapes(c) EXCEPT ![t] = Append(@, MaxDim)], 0), c, None, TRUE) :
           t \in 1..Len(c) }
  \cup { Call(Tensors([Shapes(c) EXCEPT ![t] = SubSeq(@, 1, Len(@) - 1)], 0), c, None, TRUE) :
           t \in 1..Len(c) }

(* an open chain of Len(p) + 1 matrices: the bond between the matrices i    *)
(* and i + 1 is labelled p[i], the free axis of the first matrix ends[1],   *)
(* that of the last ends[2]; matrix i lists its right label first when      *)
(* flip[i]; the matrices are passed in the order listed[1], listed[2], ...   *)
ChainNet(p, ends, flip, listed) ==
  LET chain == [i \in 1..(Len(p) + 1) |->
                  LET l == IF i = 1 THEN ends[1] ELSE p[i - 1]
                      r == IF i = Len(p) + 1 THEN ends[2] ELSE p[i]
                  IN IF flip[i] THEN <<r, l>> ELSE <<l, r>>]
  IN [i \in 1..Len(listed) |-> chain[listed[i]]]

(* a chain with the default order and with every permutation of its bond    *)
(* labels as con_order                                                      *)
ChainCalls(c) ==
  { Call(Tensors(Shapes(c), 0), c, None, TRUE) }
  \cup { Call(Tensors(Shapes(c), 0), c, Given(o), TRUE) :
            o \in Perms(Range(DefaultOrder(c))) }

(* the calls made on the label lists c: as they are for any c, the          *)
(* variations for a network that passes validation                          *)
NconCalls(c) ==
  IF IsValid(c)
  THEN PlainCalls(c) \cup CountCalls(c) \cup WellFormedCalls(c) \cup ShapeCalls(c)
  ELSE PlainCalls(c)

----------------------------------------------------------------------------
(* ncon: the steps *)

NoError == [type |-> "none", what |-> "none", label |-> 0]
NoResult == [kind |-> "none", dims |-> <<>>, data |-> <<>>]
NoOps == [trace |-> 0, contract |-> 0, outer |-> 0]

InitNcon ==
  \* the label lists of at most MaxNet tensors of rank 1..MaxRank, MaxAxes
  \* axes in all
  \* and the open chains of at most MaxNet matrices
  /\ \/ \E total \in 1..MaxAxes : \E r \in RankSeqs(total) :
        \E flat \in [1..total -> Labels] : \E call \in NconCalls(Split(flat, r)) :
           /\ tensors = call.tensors
           /\ connects = call.connects
           /\ order_arg = call.order_arg
           /\ check_network = call.check_network
     \/ \E n \in 2..Min(MaxNet, MaxPos + 1) : \E p \in Perms(1..(n - 1)) :
        \E ends \in {<<-1, -2>>, <<-2, -1>>} : \E flip \in [1..n -> BOOLEAN] :
        \E listed \in Perms(1..n) :
        \E call \in ChainCalls(ChainNet(p, ends, flip, listed)) :
           /\ tensors = call.tensors
           /\ connects = call.connects
           /\ order_arg = call.order_arg
           /\ check_network = call.check_network
  /\ tensor_list = <<>>
  /\ connect_list = <<>>
  /\ con_order = <<>>
  /\ ele = 0
  /\ npc = "setup"
  /\ result = NoResult
  /\ nraised = NoError
  /\ nops = NoOps
  /\ TebdIdle
  /\ FnIdle

args == <<tensors, connects, order_arg, check_network>>

(* the loop conditions of lines 77 and 116 *)
Loops(order, tlist) ==
  IF Len(order) > 0 THEN "contract"
  ELSE IF Len(tlist) > 1 THEN "outer"
  ELSE "final"

(* lines 50-59.  connects[ele] for ele in range(num_tensors): label lists   *)
(* beyond the tensors are never read, a missing one is an IndexError        *)
Setup ==
  /\ npc = "setup"
  /\ IF Len(connects) < Len(tensors)
     THEN /\ nraised' = [type |-> "IndexError", what |-> "list index out of range",
                         label |-> 0]
          /\ npc' = "error"
          /\ UNCHANGED <<tensor_list, connect_list, con_order>>
     ELSE /\ tensor_list' = tensors
          /\ connect_list' = SubSeq(connects, 1, Len(tensors))
          /\ con_order' = IF order_arg.given THEN order_arg.order
                          ELSE DefaultOrder(SubSeq(connects, 1, Len(tensors)))
          /\ npc' = "check"
          /\ UNCHANGED nraised
  /\ UNCHANGED <<args, ele, result, nops, tebdVars, fnVars>>

(* lines 61-64 *)
Check ==
  /\ npc = "check"
  /\ LET dims_list == [t \in 1..Len(tensor_list) |-> tensor_list[t].dims]
         r == check_inputs(connect_list, Flatten(connect_list), dims_list, con_order)
     IN IF check_network /\ ~r.ok
        THEN /\ nraised' = [type |-> "ValueError", what |-> r.what, label |-> r.label]
             /\ npc' = "error"
             /\ UNCHANGED ele
        ELSE /\ npc' = "trace"
             /\ ele' = 1
             /\ UNCHANGED nraised
  /\ UNCHANGED <<args, tensor_list, connect_list, con_order, result, nops, tebdVars, fnVars>>

ConsumedFirstOnly(order, labels) == Tail(order)

(* lines 72-74 and 111-113: np.delete(con_order,                            *)
(* np.intersect1d(con_order, labels, return_indices=True)[1])               *)
Consumed(order, labels) == delete(order, Range(intersect1d(order, labels).ia))

(* lines 68-74: the body of the partial-trace loop for tensor e *)
TraceBody(tlist, clist, order, e) ==
  LET num_cont == Len(clist[e]) - Len(unique(clist[e]))
      r == partial_trace(tlist[e], clist[e])
  IN IF num_cont > 0
     THEN [tensor_list |-> [tlist EXCEPT ![e] = r.B],
           connect_list |-> [clist EXCEPT ![e] = r.B_label],
           con_order |-> Consumed(order, r.cont_label),
           traced |-> 1]
     ELSE [tensor_list |-> tlist, connect_list |-> clist, con_order |-> order,
           traced |-> 0]

(* lines 67-74, one pass of the loop *)
Trace ==
  /\ npc = "trace"
  /\ \E r \in {TraceBody(tensor_list, connect_list, con_order, ele)} :
        /\ tensor_list' = r.tensor_list
        /\ connect_list' = r.connect_list
        /\ con_order' = r.con_order
        /\ nops' = [nops EXCEPT !.trace = @ + r.traced]
        /\ IF ele < Len(tensor_list)
           THEN /\ ele' = ele + 1
                /\ npc' = "trace"
           ELSE /\ ele' = ele
                /\ npc' = Loops(r.con_order, tensor_list)
  /\ UNCHANGED <<args, result, nraised, tebdVars, fnVars>>

(* lines 91-94 *)
IndOrder(T0, T1, A_cont, B_cont) ==
  IF Size(T0) < Size(T1) THEN argsort(A_cont) ELSE argsort(B_cont)

(* lines 78-113: the body of the binary contraction loop *)
ContractBody(tlist, clist, order) ==
  LET cont_ind == order[1]
      locs == Sorted({ t \in 1..Len(clist) : Count(clist[t], cont_ind) > 0 })
      c0 == clist[locs[1]]
      c1 == clist[locs[2]]
      T0 == tlist[locs[1]]
      T1 == tlist[locs[2]]
      i == intersect1d(c0, c1)
      ind_order == IndOrder(T0, T1, i.ia, i.ib)
      axA == [j \in 1..Len(ind_order) |-> i.ia[ind_order[j]]]
      axB == [j \in 1..Len(ind_order) |-> i.ib[ind_order[j]]]
  IN [tensor_list |-> Append(delete(tlist, {locs[1], locs[2]}),
                             tensordot(T0, T1, axA, axB)),
      connect_list |-> Append(delete(clist, {locs[1], locs[2]}),
                              delete(c0, Range(i.ia)) \o delete(c1, Range(i.ib))),
      con_order |-> Consumed(order, i.vals)]

(* lines 77-113, one pass of the loop *)
Contract ==
  /\ npc = "contract"
  /\ \E r \in {ContractBody(tensor_list, connect_list, con_order)} :
        /\ tensor_list' = r.tensor_list
        /\ connect_list' = r.connect_list
        /\ con_order' = r.con_order
        /\ npc' = Loops(r.con_order, r.tensor_list)
  /\ nops' = [nops EXCEPT !.contract = @ + 1]
  /\ UNCHANGED <<args, ele, result, nraised, tebdVars, fnVars>>

(* lines 117-124: the body of the outer product loop; a TypeError of line  *)
(* 119 or 120 leaves the lists as they were                                 *)
OuterBody(tlist, clist) ==
  LET n == Len(tlist)
      T == outer(tlist[n - 1], tlist[n])
  IN IF T.raises # "none"
     THEN [raises |-> T.raises, tensor_list |-> tlist, connect_list |-> clist]
     ELSE [raises |-> "none",
           tensor_list |-> Append(SubSeq(tlist, 1, n - 2),
                                  [dims |-> T.dims, data |-> T.data]),
           connect_list |-> Append(SubSeq(clist, 1, n - 2), clist[n - 1] \o clist[n])]

(* lines 116-124, one pass of the loop *)
Outer ==
  /\ npc = "outer"
  /\ \E r \in {OuterBody(tensor_list, connect_list)} :
        IF r.raises # "none"
        THEN /\ nraised' = [type |-> r.raises,
                            what |-> "float64 cannot be interpreted as an integer",
                            label |-> 0]
             /\ npc' = "error"
             /\ UNCHANGED <<tensor_list, connect_list, nops>>
        ELSE /\ tensor_list' = r.tensor_list
             /\ connect_list' = r.connect_list
             /\ npc' = Loops(con_order, r.tensor_list)
             /\ nops' = [nops EXCEPT !.outer = @ + 1]
             /\ UNCHANGED nraised
  /\ UNCHANGED <<args, con_order, ele, result, tebdVars, fnVars>>

FinalPermAscending(labels) == argsort(labels)

(* line 128: np.argsort(-connect_list[0]) *)
FinalPermLeftOut(labels) == [i \in 1..Len(labels) |-> i]
FinalPerm(labels) == argsort(Negated(labels))

(* lines 127-130: the value returned *)
FinalValue(tlist, clist) ==
  IF Len(clist[1]) > 0
  THEN LET T == transpose(tlist[1], FinalPerm(clist[1]))
       IN [kind |-> "array", dims |-> T.dims, data |-> T.data]
  ELSE [kind |-> "scalar", dims |-> <<>>, data |-> <<tlist[1].data[1]>>]

(* lines 127-130 *)
Final ==
  /\ npc = "final"
  /\ result' = FinalValue(tensor_list, connect_list)
  /\ npc' = "done"
  /\ UNCHANGED <<args, tensor_list, connect_list, con_order, ele, nraised, nops, tebdVars, fnVars>>

NextNcon ==
  \/ Setup
  \/ Check
  \/ Trace
  \/ Contract
  \/ Outer
  \/ Final

SpecNcon == InitNcon /\ [][NextNcon]_vars


----------------------------------------------------------------------------
(* apply_gate_MPS called on its own: the clamp of the flanking weights and  *)
(* the division by the clamped weights.  The weights are counted in units   *)
(* of stol / Stol, so that a weight can be below, at and above stol.        *)

Bool(b) == IF b THEN 1 ELSE 0

(* line 445, one entry: sBA * (sBA > stol) + stol * (sBA < stol) *)
Clamp(x) == x * Bool(x > Stol) + Stol * Bool(x < Stol)

(* 1 / x in floating point: a division by zero gives inf and a warning *)
Reciprocal(x) == IF x = 0 THEN [inf |-> TRUE, den |-> 0] ELSE [inf |-> FALSE, den |-> x]

FlankInputs == UNION { [1..n -> 0..MaxW] : n \in 1..MaxLen }

gateVars == <<flank, sBA_trim, inv_trim>>
orthVars == <<dtempL, dtempR, DL, DR, orth>>

NoOrth == [L |-> <<>>, s |-> [s |-> <<>>, n2 |-> 0], R |-> <<>>]

InitGate ==
  /\ flank \in FlankInputs
  /\ fpc = "trim"
  /\ sBA_trim = <<>>
  /\ inv_trim = <<>>
  /\ dtempL = <<>>
  /\ dtempR = <<>>
  /\ DL = <<>>
  /\ DR = <<>>
  /\ orth = NoOrth

(* line 445 *)
Trim ==
  /\ fpc = "trim"
  /\ sBA_trim' = [i \in 1..Len(flank) |-> Clamp(flank[i])]
  /\ fpc' = "divide"
  /\ UNCHANGED <<flank, inv_trim, orthVars, tebdVars, nconVars>>

(* lines 462-463: np.diag(1 / sBA_trim) *)
Divide ==
  /\ fpc = "divide"
  /\ inv_trim' = [i \in 1..Len(sBA_trim) |-> Reciprocal(sBA_trim[i])]
  /\ fpc' = "done"
  /\ UNCHANGED <<flank, sBA_trim, orthVars, tebdVars, nconVars>>

(* orthog_MPS called on its own, on a bond of dimension n: the two          *)
(* environment matrices are n x n, B is (m, d, n) and A is (n, d, m)        *)
InitOrth ==
  /\ \E n \in 1..MaxEnv :
        /\ dtempL \in EighValues(n)
        /\ dtempR \in EighValues(n)
  /\ fpc = "eighL"
  /\ DL = <<>>
  /\ DR = <<>>
  /\ orth = NoOrth
  /\ flank = <<>>
  /\ sBA_trim = <<>>
  /\ inv_trim = <<>>

(* lines 413-417 *)
EighLeft ==
  /\ fpc = "eighL"
  /\ DL' = EighKeep(dtempL)
  /\ fpc' = "eighR"
  /\ UNCHANGED <<dtempL, dtempR, DR, orth, gateVars, tebdVars, nconVars>>

(* lines 419-423 *)
EighRight ==
  /\ fpc = "eighR"
  /\ DR' = EighKeep(dtempR)
  /\ fpc' = "svd"
  /\ UNCHANGED <<dtempL, dtempR, DL, orth, gateVars, tebdVars, nconVars>>

(* lines 425-437: weighted_mat is len(DL) x len(DR) *)
WeightsAndGauge ==
  /\ fpc = "svd"
  /\ \E dd \in 1..MaxD, m \in 1..MaxBond0 :
     \E stemp \in SvdValues(Min(Len(DL), Len(DR))) :
        orth' = orthog_MPS(<<m, dd, Len(dtempL)>>, <<Len(dtempL), dd, m>>, stemp)
  /\ fpc' = "done"
  /\ UNCHANGED <<dtempL, dtempR, DL, DR, gateVars, tebdVars, nconVars>>

InitFn ==
  /\ InitGate \/ InitOrth
  /\ TebdIdle
  /\ NconIdle

NextFn ==
  \/ Trim
  \/ Divide
  \/ EighLeft
  \/ EighRight
  \/ WeightsAndGauge

SpecFn == InitFn /\ [][NextFn]_vars

----------------------------------------------------------------------------
(* Properties of doTEBD *)

LastOp == IF Len(log) = 0 THEN "none" ELSE log[Len(log)].op

Ks(entries) == [i \in 1..Len(entries) |-> entries[i].k]
Ops(entries) == [i \in 1..Len(entries) |-> entries[i].op]

IsMeasure(e) == e.op = "measure"
IsCanon(e) == e.op \in {"left", "right", "orthBA", "orthAB", "norm"}
IsGate(e) == e.op \in {"gateAB", "gateBA"}

(* the iteration counters 0 <= kk <= numiter with kk mod midsteps = 0 or    *)
(* kk = numiter, in increasing order                                        *)
IsMeasuredK(kk) == kk % midsteps = 0 \/ kk = numiter
MeasuredKs == SelectSeq([i \in 1..(numiter + 1) |-> i - 1], IsMeasuredK)

CanonBlock == <<"left", "right", "orthBA", "orthAB", "norm", "measure">>

(* C1: a run that completes canonicalizes and then at once measures at      *)
(* exactly the counters k in 0..numiter with k mod midsteps = 0 or          *)
(* k = numiter, once each; the index trace is the increasing list of those  *)
(* k, the energy trace has the same length, and the magnetization trace has *)
(* that length when magz is supplied and is empty when it is not.           *)
C1_MeasureSchedule ==
  /\ Len(sim_E_0) = Len(time)
  /\ Len(m_z) = IF hasMagz THEN Len(time) ELSE 0
  /\ pc = "done" =>
       /\ time = MeasuredKs
       /\ Ks(SelectSeq(log, IsMeasure)) = MeasuredKs
       /\ \A i \in 1..Len(log) :
            log[i].op = "measure" =>
              /\ i >= 6
              /\ Ops(SubSeq(log, i - 5, i)) = CanonBlock
              /\ \A j \in (i - 5)..i : log[j].k = log[i].k
       /\ \A i \in 1..Len(log) :
            IsCanon(log[i]) =>
              \E j \in i..Min(i + 5, Len(log)) :
                /\ log[j].op = "measure"
                /\ log[j].k = log[i].k
                /\ Ops(SubSeq(log, j - 5, j)) = CanonBlock

(* a completed run with an iteration measured as a multiple of midsteps     *)
(* (k = 0), one that is skipped (k = 1) and the final one (k = 2)           *)
C1_Witness ==
  /\ pc = "done"
  /\ numiter = 2
  /\ midsteps = 2
  /\ hasMagz
  /\ time = <<0, 2>>
  /\ Len(m_z) = 2

GateSchedule(n) ==
  [i \in 1..(2 * n) |->
     [op |-> IF i % 2 = 1 THEN "gateAB" ELSE "gateBA", k |-> (i - 1) \div 2]]

CanonicalStamps ==
  [A |-> Stamp("norm", numiter), B |-> Stamp("norm", numiter),
   sAB |-> Stamp("orthAB", numiter), sBA |-> Stamp("orthBA", numiter)]

(* C2: a run that completes performs exactly numiter EVOLVE steps, one at   *)
(* each k in 0..numiter-1; each applies the A-B gate and then the B-A gate  *)
(* to what the A-B gate produced; nothing is applied after the measurement  *)
(* of iteration numiter, so the returned A, B, sAB, sBA are those of the    *)
(* last CANONICALIZE.                                                       *)
C2_EvolveSchedule ==
  /\ pc = "evolveBA" =>
       /\ LastOp = "gateAB"
       /\ log[Len(log)].k = k
       /\ by.A = Stamp("gateAB", k)
       /\ by.B = Stamp("gateAB", k)
       /\ by.sAB = Stamp("gateAB", k)
  /\ pc = "done" =>
       /\ SelectSeq(log, IsGate) = GateSchedule(numiter)
       /\ \A i \in 1..Len(log) :
            log[i].op = "gateAB" =>
              /\ i < Len(log)
              /\ log[i + 1] = Entry("gateBA", log[i].k)
       /\ Len(log) >= 2
       /\ log[Len(log)] = Entry("return", numiter)
       /\ log[Len(log) - 1] = Entry("measure", numiter)
       /\ by = CanonicalStamps

C2_Witness ==
  /\ pc = "done"
  /\ numiter = 2
  /\ midsteps = 2
  /\ Len(SelectSeq(log, IsGate)) = 4

Measured == LastOp \in {"measure", "return"}

(* C3 as stated: at every MEASURE and in the returned result the lengths of *)
(* sAB and sBA are at most chi, whatever the initial bond dimensions.       *)
C3_Original ==
  Measured => Len(sAB.s) <= chi /\ Len(sBA.s) <= chi

Max(a, b) == IF a >= b THEN a ELSE b

(* what apply_gate_MPS returns for every decomposition it can meet at a     *)
(* bond flanked by lenOut weights: the first min(chi, d * lenOut) singular  *)
(* values, at most chi of them                                              *)
GateTruncates(dd, lenOut) ==
  \A stemp \in SvdValues(dd * lenOut) :
    LET r == apply_gate_MPS(dd, lenOut, chi, stemp)
    IN  /\ Len(r.s.s) = Min(chi, dd * lenOut)
        /\ Len(r.s.s) <= chi
        /\ r.s.s = SubSeq(stemp, 1, Len(r.s.s))
        /\ r.L = <<lenOut, dd, Len(r.s.s)>>
        /\ r.R = <<Len(r.s.s), dd, lenOut>>

(* C3 (amended): every apply_gate_MPS call returns the first                *)
(* min(chi, d*chiBA) singular values of the decomposition, at most chi of   *)
(* them; at every MEASURE and in the returned result the lengths of sAB and *)
(* sBA are at most chi when the input bond dimensions are at most chi or an *)
(* EVOLVE step has been done, and at most the input bond dimension          *)
(* otherwise (the MEASURE of k = 0).                                        *)
C3_BondBound ==
  /\ pc = "evolveAB" => GateTruncates(shapeA[2], Len(sBA.s))
  /\ pc = "evolveBA" =>
       /\ GateTruncates(shapeB[2], Len(sAB.s))
       /\ Len(sAB.s) = Min(chi, shapeA[2] * Len(sBA.s))
  /\ (pc = "next" /\ LastOp = "gateBA") =>
       Len(sBA.s) = Min(chi, shapeB[2] * Len(sAB.s))
  /\ Measured =>
       /\ Len(sAB.s) <= Max(chi, bond0.AB)
       /\ Len(sBA.s) <= Max(chi, bond0.BA)
       /\ (k >= 1 \/ (bond0.AB <= chi /\ bond0.BA <= chi)) =>
            Len(sAB.s) <= chi /\ Len(sBA.s) <= chi

(* a gate application that truncates, and a measurement after it *)
C3_Witness ==
  /\ LastOp = "measure"
  /\ k >= 1
  /\ shapeA[2] * bond0.BA > chi
  /\ \E i \in 1..Len(log) : log[i].op = "gateAB"
  /\ Len(sAB.s) = chi
  /\ Len(sBA.s) = chi

Normalized(w) ==
  /\ w.n2 > 0
  /\ SumSq(w.s) = w.n2
  /\ \A i \in 1..Len(w.s) : w.s[i] >= 0

AfterWeights == LastOp \in {"orthAB", "norm", "measure", "gateAB", "gateBA", "return"}

NormalizedUnlessZero(w) ==
  /\ SumSq(w.s) = w.n2
  /\ \A i \in 1..Len(w.s) : w.s[i] >= 0
  /\ (\E i \in 1..Len(w.s) : w.s[i] > 0) => Normalized(w)

C10_ConvergenceFailureIsFatal ==
  /\ raised.what # "none" =>
       /\ pc = "error"
       /\ raised.k = k
       /\ log[Len(log)] = Entry("raise", k)
       /\ \A i \in 1..(Len(log) - 1) : log[i].op # "raise"
       /\ Len(sim_E_0) = Len(time)
  /\ raised.what \in {"TypeError", "ArpackNoConvergence", "ArpackError"} =>
       /\ \A i \in 1..Len(log) :
            log[i].k = k => log[i].op \in {"left", "raise"}
       /\ \A i \in 1..Len(time) : time[i] < k
  /\ pc = "orthBA" => sigBA.k = k /\ muBA.k = k
  /\ pc = "orthAB" => sigAB.k = k /\ muAB.k = k

(* the right solve fails to converge at a later iteration, after the left   *)
(* solve of that iteration went through                                     *)
C10_Witness ==
  /\ raised.what = "ArpackNoConvergence"
  /\ k >= 1
  /\ Len(log) >= 2
  /\ log[Len(log) - 1].op = "left"
  /\ log[Len(log) - 1].k = k
  /\ Len(time) >= 1

(* A.shape = (len(sBA), d, len(sAB)) and B.shape = (len(sAB), d, len(sBA)) *)
BondShapes ==
  /\ Len(shapeA) = 3
  /\ Len(shapeB) = 3
  /\ shapeA[1] = Len(sBA.s)
  /\ shapeA[3] = Len(sAB.s)
  /\ shapeB[1] = Len(sAB.s)
  /\ shapeB[3] = Len(sBA.s)
  /\ shapeB[2] = shapeA[2]

(* C15: with inputs of consistent bond shapes, A.shape = (len(sBA), d,      *)
(* len(sAB)) and B.shape = (len(sAB), d, len(sBA)) hold after every         *)
(* orthog_MPS call and every apply_gate_MPS call, on either bond, at every  *)
(* iteration and in the returned result: at every statement of the run.     *)
C15_BondShapes == BondShapes

(* a run with gates and a final gauge fixing has returned with both bond    *)
(* dimensions different from those of the inputs                            *)
C15_Witness ==
  /\ LastOp = "return"
  /\ numiter >= 1
  /\ Len(sAB.s) # bond0.AB
  /\ Len(sBA.s) # bond0.BA
  /\ \E i \in 1..Len(log) : log[i].op = "gateBA"
  /\ \E i \in 1..Len(log) : log[i].op = "orthAB" /\ log[i].k = numiter

----------------------------------------------------------------------------
(* Properties of ncon *)

Returned == npc = "done"
Ended == npc \in {"done", "error"}
Checked == npc \notin {"idle", "setup", "check"}

FlatLabels == Flatten(connects)
FlatDims == Flatten([t \in 1..Len(tensors) |-> tensors[t].dims])
OpenLabels == SelectSeq(FlatLabels, Negative)
ClosedLabels == SelectSeq(FlatLabels, Positive)

(* one label list per tensor, one label per axis *)
WellShaped ==
  /\ Len(tensors) = Len(connects)
  /\ \A t \in 1..Len(tensors) : Len(tensors[t].dims) = Len(connects[t])

(* the contraction order is the default one or lists the distinct positive  *)
(* labels once each                                                         *)
OrderValid ==
  order_arg.given =>
    /\ Range(order_arg.order) = Range(ClosedLabels)
    /\ Len(order_arg.order) = Cardinality(Range(ClosedLabels))

(* the open labels are -1, ..., -n, once each *)
OpenLabelsExact ==
  /\ Range(OpenLabels) = (0 - Len(OpenLabels))..(-1)
  /\ \A l \in Range(OpenLabels) : Count(OpenLabels, l) = 1

(* what is wrong with the positive label l, if anything *)
Offence(l) ==
  IF Count(FlatLabels, l) = 1 THEN "only one index labelled"
  ELSE IF Count(FlatLabels, l) > 2 THEN "more than two indices labelled"
  ELSE IF \E i, j \in Where(FlatLabels, l) : FlatDims[i] # FlatDims[j]
       THEN "tensor dimension mismatch on index labelled"
  ELSE "none"

Offending == { l \in Range(ClosedLabels) : Offence(l) # "none" }

(* the size of the axes labelled l *)
LabelDim(l) == FlatDims[FirstPos(FlatLabels, l)]

(* the entry of the contracted network at the open indices open[i] for      *)
(* label -i, by direct summation over every positive label                  *)
NetworkSum(open) ==
  LET pos == Sorted(Range(ClosedLabels))
      pd == [j \in 1..Len(pos) |-> LabelDim(pos[j])]
  IN SumSeq([n \in 1..Prod(pd) |->
       LET ci == Unravel(n - 1, pd)
       IN Prod([t \in 1..Len(tensors) |->
            At(tensors[t],
               [a \in 1..Len(connects[t]) |->
                  IF connects[t][a] < 0 THEN open[0 - connects[t][a]]
                  ELSE ci[FirstPos(pos, connects[t][a])]])])])

(* the contracted network with the open index labelled -i on axis i *)
Reference ==
  LET d == [i \in 1..Len(OpenLabels) |-> LabelDim(0 - i)]
  IN [dims |-> d, data |-> [m \in 1..Prod(d) |-> NetworkSum(Unravel(m - 1, d))]]

(* a network that check_inputs accepts *)
ValidNetwork ==
  /\ WellShaped
  /\ OrderValid
  /\ OpenLabelsExact
  /\ Offending = {}

(* the returned value of a call with as many label lists as tensors: with   *)
(* open labels an array whose i-th axis (from 1) is the open index labelled *)
(* -i, without open labels a scalar, in both cases the contracted network   *)
ReturnedValue ==
  (Returned /\ Len(tensors) = Len(connects)) =>
     IF Len(OpenLabels) > 0
     THEN /\ result.kind = "array"
          /\ result.dims = Reference.dims
          /\ result.data = Reference.data
     ELSE /\ result.kind = "scalar"
          /\ result.data = Reference.data

(* C5: a call on a valid network returns; with open labels it returns an   *)
(* array whose i-th axis (from 1) is the open index labelled -i, with the   *)
(* entries of the contracted network; without open labels it returns a      *)
(* scalar, the full contraction                                             *)
C5_OutputAxes ==
  /\ (Ended /\ ValidNetwork) => Returned
  /\ ReturnedValue

(* C6: two vectors of equal length on one shared positive label give the   *)
(* sum of the products of corresponding entries; a square matrix with one   *)
(* positive label on both axes gives its trace                              *)
C6_InnerProductAndTrace ==
  Returned =>
    /\ ( /\ Len(tensors) = 2 /\ Len(connects) = 2
         /\ Len(connects[1]) = 1 /\ connects[1][1] > 0
         /\ connects[2] = connects[1]
         /\ tensors[1].dims = tensors[2].dims )
       => /\ result.kind = "scalar"
          /\ result.data = <<SumSeq([i \in 1..tensors[1].dims[1] |->
                                       tensors[1].data[i] * tensors[2].data[i]])>>
    /\ ( /\ Len(tensors) = 1 /\ Len(connects) = 1
         /\ Len(connects[1]) = 2 /\ connects[1][1] > 0
         /\ connects[1][2] = connects[1][1]
         /\ Len(tensors[1].dims) = 2
         /\ tensors[1].dims[1] = tensors[1].dims[2] )
       => /\ result.kind = "scalar"
          /\ result.data = <<SumSeq([i \in 1..tensors[1].dims[1] |->
                                       tensors[1].data[(i - 1) * tensors[1].dims[1] + i]])>>

(* the inner product of two vectors of three entries has been returned *)
C6_Witness ==
  /\ Returned
  /\ Len(tensors) = 2 /\ Len(connects) = 2
  /\ connects[1] = <<2>> /\ connects[2] = <<2>>
  /\ tensors[1].dims = <<3>> /\ tensors[2].dims = <<3>>
  /\ tensors[1].data # tensors[2].data
  /\ nops.contract = 1
  /\ result.kind = "scalar"

(* C7: a validated call with a number of tensors different from the number *)
(* of label lists ends with the ValueError of check_inputs and returns      *)
(* nothing                                                                  *)
C7_CountMismatchRaises ==
  (Ended /\ check_network /\ Len(tensors) # Len(connects)) =>
     /\ npc = "error"
     /\ nraised.type = "ValueError"
     /\ result.kind = "none"

(* C8: in a validated call whose counts, ranks, order and negative labels  *)
(* are valid, a positive label that appears once, or more than twice, or    *)
(* on two axes of different size, ends the call in check_inputs with a      *)
(* ValueError that names the least such label and its fault, before any     *)
(* partial trace, contraction or outer product                              *)
C8_PositiveLabelErrors ==
  (Checked /\ check_network /\ WellShaped /\ OrderValid /\ OpenLabelsExact
     /\ Offending # {}) =>
     /\ npc = "error"
     /\ nraised.type = "ValueError"
     /\ nraised.label \in Offending
     /\ \A l \in Offending : nraised.label <= l
     /\ nraised.what = Offence(nraised.label)
     /\ nops = NoOps
     /\ tensor_list = tensors
     /\ result.kind = "none"

(* two vectors of different length on one shared label have been rejected *)
C8_Witness ==
  /\ npc = "error"
  /\ check_network /\ WellShaped /\ OrderValid /\ OpenLabelsExact
  /\ Len(tensors) = 2
  /\ Count(FlatLabels, 1) = 2
  /\ nraised.what = "tensor dimension mismatch on index labelled"
  /\ nraised.label = 1

(* C9: in a validated call whose counts, ranks and order are valid, the    *)
(* negative-label check passes exactly when the n negative labels are       *)
(* -1, ..., -n once each; otherwise the call ends with a ValueError naming  *)
(* a label of -1..-n that is missing or a label that is duplicated          *)
C9_NegativeLabels ==
  (Checked /\ check_network /\ WellShaped /\ OrderValid) =>
     LET negError == nraised.what \in {"no index labelled", "more than one index labelled"}
     IN /\ OpenLabelsExact <=> ~negError
        /\ ~OpenLabelsExact =>
             /\ npc = "error"
             /\ nraised.type = "ValueError"
             /\ nraised.label \in (0 - Len(OpenLabels))..(-1)
             /\ \/ /\ nraised.what = "no index labelled"
                   /\ Count(OpenLabels, nraised.label) = 0
                \/ /\ nraised.what = "more than one index labelled"
                   /\ Count(OpenLabels, nraised.label) > 1
             /\ result.kind = "none"

(* a network with the open labels -1, -1 has been rejected for the          *)
(* duplicate                                                                *)
C9_Witness ==
  /\ npc = "error"
  /\ check_network /\ WellShaped /\ OrderValid
  /\ Len(OpenLabels) = 2
  /\ Count(OpenLabels, -1) = 2
  /\ nraised.what = "more than one index labelled"
  /\ nraised.label = -1

(* the positive labels still on the working tensors *)
LabelsLeft == { l \in Range(Flatten(connect_list)) : l > 0 }

Carriers(l) == { t \in 1..Len(connect_list) : l \in Range(connect_list[t]) }

PastTrace == npc \in {"contract", "outer", "final", "done"}

(* the state of the reduction after the partial-trace pass *)
Reducing ==
  PastTrace =>
    /\ \A t \in 1..Len(connect_list) :
          Cardinality(Range(connect_list[t])) = Len(connect_list[t])
    /\ Len(connect_list) = Len(tensor_list)
    /\ Len(tensor_list) = Len(tensors) - nops.contract - nops.outer
    /\ Range(con_order) = LabelsLeft
    /\ Cardinality(Range(con_order)) = Len(con_order)
    /\ \A l \in Range(con_order) : Cardinality(Carriers(l)) = 2
    /\ npc = "contract" => Len(con_order) > 0
    /\ npc \in {"outer", "final", "done"} => (con_order = <<>> /\ LabelsLeft = {})
    /\ npc \in {"final", "done"} => Len(tensor_list) = 1
    /\ npc = "done" =>
          /\ nops.contract + nops.outer = Len(tensors) - 1
          /\ result.kind # "none"

(* a call on a valid network ends with one tensor, never with an error *)
ReducedToOne ==
  (Ended /\ ValidNetwork) => (Returned /\ Len(tensor_list) = 1)

(* one pairwise step: the two tensors that carry the next label become one  *)
(* and the labels they share leave the queue                                *)
PairwiseStep ==
  npc = "contract" =>
    LET two == Carriers(con_order[1])
        shared == { l \in LabelsLeft : Carriers(l) = two }
    IN /\ Cardinality(two) = 2
       /\ Len(tensor_list') = Len(tensor_list) - 1
       /\ Range(con_order') = Range(con_order) \ shared
       /\ nops'.contract = nops.contract + 1

(* a bound on the statements still to run: it is never negative and every  *)
(* step lowers it, so every call ends                                       *)
Variant ==
  CASE npc = "setup" -> 2 * Len(tensors) + 4 + Len(FlatLabels) + Len(order_arg.order)
    [] npc = "check" -> 2 * Len(tensors) + 3 + Len(con_order)
    [] npc = "trace" -> 2 * Len(tensors) + 2 - ele + Len(con_order)
    [] npc = "contract" -> 1 + Len(tensor_list) + Len(con_order)
    [] npc = "outer" -> 1 + Len(tensor_list)
    [] npc = "final" -> 1
    [] OTHER -> 0

(* C13: a call on a network of N tensors that passes validation ends; after *)
(* the partial-trace pass no tensor has a repeated label, every label of    *)
(* the queue is on exactly two tensors, each pairwise step replaces these   *)
(* two by one and removes the labels they share from the queue, an empty    *)
(* queue means no positive label is left, and one tensor remains after      *)
(* exactly N-1 pairwise contractions and outer products                     *)
C13_Reduction ==
  /\ []ReducedToOne
  /\ []Reducing
  /\ [][PairwiseStep /\ Variant' < Variant]_vars

(* the partial-trace pass from tensor e on, then the two loops and the      *)
(* return, as one value                                                     *)
RECURSIVE TraceAll(_, _, _, _)
TraceAll(tlist, clist, order, e) ==
  IF e > Len(tlist) THEN [tensor_list |-> tlist, connect_list |-> clist, con_order |-> order]
  ELSE LET r == TraceBody(tlist, clist, order, e)
       IN TraceAll(r.tensor_list, r.connect_list, r.con_order, e + 1)

(* the outcome of a call that raised in the outer product loop *)
Raised(type) == [kind |-> type, dims |-> <<>>, data |-> <<>>]

RECURSIVE Reduce(_, _, _)
Reduce(tlist, clist, order) ==
  IF Len(order) > 0
  THEN LET r == ContractBody(tlist, clist, order)
       IN Reduce(r.tensor_list, r.connect_list, r.con_order)
  ELSE IF Len(tlist) > 1
  THEN LET r == OuterBody(tlist, clist)
       IN IF r.raises # "none" THEN Raised(r.raises)
          ELSE Reduce(r.tensor_list, r.connect_list, order)
  ELSE FinalValue(tlist, clist)

(* how the call ends when con_order is left out: the value returned, or the *)
(* error of the outer product loop                                          *)
DefaultResult ==
  LET clist == SubSeq(connects, 1, Len(tensors))
      t == TraceAll(tensors, clist, DefaultOrder(clist), 1)
  IN Reduce(t.tensor_list, t.connect_list, t.con_order)

(* how the call has ended *)
Outcome == IF Returned THEN result ELSE Raised(nraised.type)

(* C14: a call on a valid network with an explicit con_order, any           *)
(* permutation of the distinct positive labels, ends as the call with the   *)
(* default ascending order ends: it returns the same value, and it raises   *)
(* only where the default order raises too                                  *)
C14_OrderIndependent ==
  (Ended /\ order_arg.given /\ ValidNetwork) => Outcome = DefaultResult

(* the labels of the one tensor left, before the final permutation, when   *)
(* con_order is left out                                                    *)
RECURSIVE LabelsReached(_, _, _)
LabelsReached(tlist, clist, order) ==
  IF Len(order) > 0
  THEN LET r == ContractBody(tlist, clist, order)
       IN LabelsReached(r.tensor_list, r.connect_list, r.con_order)
  ELSE clist[1]

(* an open chain of three matrices, the axes -1 and -2 of different size,   *)
(* has been contracted with label 2 first and has returned a matrix; the    *)
(* open axes were left in the order -2, -1 before the final permutation,    *)
(* where the default order leaves them in the order -1, -2                  *)
C14_Witness ==
  /\ Returned
  /\ order_arg.given
  /\ order_arg.order = <<2, 1>>
  /\ connects = <<<<-1, 1>>, <<1, 2>>, <<2, -2>>>>
  /\ nops.contract = 2
  /\ result.kind = "array"
  /\ Len(result.dims) = 2
  /\ result.dims[1] # result.dims[2]
  /\ connect_list[1] # LabelsReached(tensors, connects, DefaultOrder(connects))

----------------------------------------------------------------------------
(* Properties of the helpers called on their own *)

(* C11: every entry of the clamped vector sBA_trim is at least stol, an    *)
(* entry above stol is unchanged, and no reciprocal of a clamped entry is   *)
(* a division by zero                                                       *)
C11_ClampedAwayFromZero ==
  /\ fpc \in {"divide", "done"} =>
        \A i \in 1..Len(flank) :
           /\ sBA_trim[i] >= Stol
           /\ flank[i] > Stol => sBA_trim[i] = flank[i]
  /\ fpc = "done" => \A i \in 1..Len(flank) : ~inv_trim[i].inf

Descending(s) == \A i \in 1..(Len(s) - 1) : s[i] >= s[i + 1]

(* kept holds exactly the entries of dtemp above dtol, largest first: it is *)
(* the end of the ascending dtemp read backwards                            *)
KeptExactly(kept, dtemp) ==
  /\ \A v \in 0..MaxEig :
        Cardinality({i \in 1..Len(kept) : kept[i] = v})
          = (IF v > Dtol THEN Cardinality({i \in 1..Len(dtemp) : dtemp[i] = v}) ELSE 0)
  /\ Descending(kept)
  /\ \A i \in 1..Len(kept) : kept[i] = dtemp[Len(dtemp) + 1 - i]

(* C12: orthog_MPS keeps for each environment matrix exactly the            *)
(* eigenvalues above dtol, largest first; the new weight vector has         *)
(* min(len(DL), len(DR)) entries, never more than the bond had, and the     *)
(* tensors returned carry that dimension on the bond                        *)
C12_EigenDiscard ==
  /\ fpc \in {"eighR", "svd", "done"} => KeptExactly(DL, dtempL)
  /\ fpc \in {"svd", "done"} => KeptExactly(DR, dtempR)
  /\ (fpc = "done" /\ Len(dtempL) > 0) =>
        /\ Len(orth.s.s) = Min(Len(DL), Len(DR))
        /\ Len(orth.s.s) <= Len(dtempL)
        /\ orth.L[3] = Len(orth.s.s)
        /\ orth.R[1] = Len(orth.s.s)

(* a call has returned with a bond smaller than before: on the left an      *)
(* eigenvalue equal to dtol was dropped and two different eigenvalues were  *)
(* kept, the larger first; on the right none was dropped                    *)
C12_Witness ==
  /\ fpc = "done"
  /\ Len(dtempL) = 3
  /\ dtempL[1] = Dtol
  /\ dtempL[2] < dtempL[3]
  /\ DL = <<dtempL[3], dtempL[2]>>
  /\ Len(DR) = 3
  /\ DR[1] > DR[3]
  /\ Len(orth.s.s) = 2

====
